---- MODULE Spec2Model ----
(***************************************************************************)
(* Constraint and objective features of the routing core: LIFO ordering,   *)
(* maximum ride duration, job preferences and requested arrival time,      *)
(* evaluated on a tour that an insertion driver grows leg by leg.          *)
(***************************************************************************)
EXTENDS Integers, Sequences, FiniteSets, TLC

VARIABLES tour, vehicle, transport, problem, move, solution

vars == <<tour, vehicle, transport, problem, move, solution>>

(***************************************************************************)
(* Option<T> is a set with at most one element.                            *)
(***************************************************************************)
None == {}
Some(x) == {x}
Unwrap(o) == CHOOSE x \in o : TRUE
OptionOf(S) == {None} \cup {Some(x) : x \in S}

(***************************************************************************)
(* Bounds of the model.                                                    *)
(***************************************************************************)
MaxTour == 4
NumGroups == 2
NumJobs == 2

Tags == {"wheelchair", "stroller"}
Groups == 1..NumGroups

LIFO_VIOLATION_CODE == 1100

(***************************************************************************)
(* Data model: Single, Activity, Tour.                                     *)
(***************************************************************************)
NoDimens ==
  [id |-> None, lifo_tag |-> None, lifo_group |-> None, demand |-> None,
   max_ride_duration |-> None, root |-> None, preferences |-> None,
   requested_times |-> None]

pudo_pickup == [pickup |-> TRUE, delivery |-> FALSE]
pudo_delivery == [pickup |-> FALSE, delivery |-> TRUE]

DefaultPlace == [idx |-> 0, location |-> 0, duration |-> 0, time_start |-> 0]
DefaultSchedule == [arrival |-> 0, departure |-> 0]

Activity(place, schedule, single) ==
  [place |-> place, schedule |-> schedule, job |-> single]

\* route start: an activity without a job
StartActivity == Activity(DefaultPlace, DefaultSchedule, None)

create_regular_activity ==
  Activity(DefaultPlace, DefaultSchedule, Some(NoDimens))

create_lifo_pickup(tag, group_id) ==
  Activity(DefaultPlace, DefaultSchedule,
           Some([NoDimens EXCEPT !.lifo_tag = Some(tag), !.lifo_group = Some(group_id),
                                 !.demand = Some(pudo_pickup)]))

create_lifo_delivery(tag, group_id) ==
  Activity(DefaultPlace, DefaultSchedule,
           Some([NoDimens EXCEPT !.lifo_tag = Some(tag), !.lifo_group = Some(group_id),
                                 !.demand = Some(pudo_delivery)]))

\* tour.get(idx), 0-based, None beyond the end
TourGet(t, idx) == IF idx >= 0 /\ idx < Len(t) THEN Some(t[idx + 1]) ELSE None

\* tour.total()
TourTotal(t) == Len(t)

\* tour.insert_at(activity, index): the activity becomes the one at 0-based index
TourInsertAt(t, a, index) ==
  SubSeq(t, 1, index) \o <<a>> \o SubSeq(t, index + 1, Len(t))

(***************************************************************************)
(* LIFO ordering constraint.                                               *)
(***************************************************************************)
LifoIsPickup(single) ==
  single.demand # None /\ Unwrap(single.demand).pickup

LifoIsDelivery(single) ==
  single.demand # None /\ Unwrap(single.demand).delivery

\* stacks: a map from tag to a stack of group ids (top is the last element)
StackOf(stacks, tag) == IF tag \in DOMAIN stacks THEN stacks[tag] ELSE <<>>

StackPut(stacks, tag, s) ==
  [t \in (DOMAIN stacks) \cup {tag} |-> IF t = tag THEN s ELSE stacks[t]]

StackLast(s) == IF Len(s) = 0 THEN None ELSE Some(s[Len(s)])

Ok(stacks) == [err |-> FALSE, stacks |-> stacks]
Err(stacks) == [err |-> TRUE, stacks |-> stacks]

\* variant: the delivery demand is looked at before the pickup demand
process_activity_DeliveryFirst(activity, stacks, vehicle_lifo_tags) ==
  IF activity.job = None THEN Ok(stacks)
  ELSE LET single == Unwrap(activity.job) IN
    IF single.lifo_tag = None THEN Ok(stacks)
    ELSE LET lifo_tag == Unwrap(single.lifo_tag) IN
      IF lifo_tag \notin vehicle_lifo_tags THEN Ok(stacks)
      ELSE IF single.lifo_group = None THEN Ok(stacks)
      ELSE LET lifo_group_id == Unwrap(single.lifo_group)
               stack == StackOf(stacks, lifo_tag)
               entered == StackPut(stacks, lifo_tag, stack)
           IN IF LifoIsDelivery(single)
                THEN IF StackLast(stack) = Some(lifo_group_id)
                       THEN Ok(StackPut(stacks, lifo_tag, SubSeq(stack, 1, Len(stack) - 1)))
                       ELSE Err(entered)
              ELSE IF LifoIsPickup(single)
                THEN Ok(StackPut(stacks, lifo_tag, Append(stack, lifo_group_id)))
              ELSE Ok(entered)

process_activity(activity, stacks, vehicle_lifo_tags) ==
  IF activity.job = None THEN Ok(stacks)
  ELSE LET single == Unwrap(activity.job) IN
    IF single.lifo_tag = None THEN Ok(stacks)
    ELSE LET lifo_tag == Unwrap(single.lifo_tag) IN
      IF lifo_tag \notin vehicle_lifo_tags THEN Ok(stacks)
      ELSE IF single.lifo_group = None THEN Ok(stacks)
      ELSE LET lifo_group_id == Unwrap(single.lifo_group)
               stack == StackOf(stacks, lifo_tag)
               entered == StackPut(stacks, lifo_tag, stack)
           IN IF LifoIsPickup(single)
                THEN Ok(StackPut(stacks, lifo_tag, Append(stack, lifo_group_id)))
              ELSE IF LifoIsDelivery(single)
                THEN IF StackLast(stack) = Some(lifo_group_id)
                       THEN Ok(StackPut(stacks, lifo_tag, SubSeq(stack, 1, Len(stack) - 1)))
                       ELSE Err(entered)
              ELSE Ok(entered)

\* for idx in from..to { if let Some(activity) = tour.get(idx) && process(..).is_err() { return } }
RECURSIVE ProcessRange(_, _, _, _, _)
ProcessRange(t, from, to, stacks, vehicle_lifo_tags) ==
  IF from >= to THEN Ok(stacks)
  ELSE LET a == TourGet(t, from) IN
    IF a = None THEN ProcessRange(t, from + 1, to, stacks, vehicle_lifo_tags)
    ELSE LET r == process_activity(Unwrap(a), stacks, vehicle_lifo_tags) IN
      IF r.err THEN r
      ELSE ProcessRange(t, from + 1, to, r.stacks, vehicle_lifo_tags)

EmptyStacks == [t \in {} |-> <<>>]

check_lifo_violation(t, activity_ctx, vehicle_lifo_tags) ==
  LET before == ProcessRange(t, 0, activity_ctx.index, EmptyStacks, vehicle_lifo_tags) IN
  IF before.err THEN TRUE
  ELSE LET inserted == process_activity(activity_ctx.target, before.stacks, vehicle_lifo_tags) IN
    IF inserted.err THEN TRUE
    ELSE ProcessRange(t, activity_ctx.index, TourTotal(t), inserted.stacks, vehicle_lifo_tags).err

ConstraintViolation(code, stopped) == [code |-> code, stopped |-> stopped]

create_lifo_ordering_feature(code) == [name |-> "lifo_ordering", code |-> code]

\* dimens.get_lifo_tag(): a key the store does not hold is absent
get_lifo_tag(dimens) == IF "lifo_tag" \in DOMAIN dimens THEN dimens.lifo_tag ELSE None

\* variant: a vehicle without a tag set is taken to enforce every tag
LifoEvaluate_AbsentTagsEnforceAll(self, t, veh, move_ctx) ==
  IF move_ctx.kind = "Activity"
    THEN LET vehicle_lifo_tags == IF veh.lifo_tags = None THEN Tags ELSE Unwrap(veh.lifo_tags) IN
         IF check_lifo_violation(t, move_ctx.activity_ctx, vehicle_lifo_tags)
           THEN Some(ConstraintViolation(self.code, FALSE))
           ELSE None
    ELSE None

\* variant: a route-level move is rejected when the job has a tag that the
\* vehicle does not enforce
LifoEvaluate_RouteChecksTag(self, t, veh, move_ctx) ==
  IF move_ctx.kind = "Activity"
    THEN IF veh.lifo_tags = None THEN None
         ELSE LET vehicle_lifo_tags == Unwrap(veh.lifo_tags) IN
           IF vehicle_lifo_tags = {} THEN None
           ELSE IF check_lifo_violation(t, move_ctx.activity_ctx, vehicle_lifo_tags)
                  THEN Some(ConstraintViolation(self.code, FALSE))
                  ELSE None
    ELSE IF /\ get_lifo_tag(move_ctx.job) # None
            /\ (veh.lifo_tags = None \/ Unwrap(get_lifo_tag(move_ctx.job)) \notin Unwrap(veh.lifo_tags))
           THEN Some(ConstraintViolation(self.code, FALSE))
           ELSE None

\* move_ctx: [kind |-> "Activity", activity_ctx |-> ..] or [kind |-> "Route", ..]
LifoEvaluate(self, t, veh, move_ctx) ==
  IF move_ctx.kind = "Activity"
    THEN IF veh.lifo_tags = None THEN None
         ELSE LET vehicle_lifo_tags == Unwrap(veh.lifo_tags) IN
           IF vehicle_lifo_tags = {} THEN None
           ELSE IF check_lifo_violation(t, move_ctx.activity_ctx, vehicle_lifo_tags)
                  THEN Some(ConstraintViolation(self.code, FALSE))
                  ELSE None
    ELSE None

\* Result<Job, ViolationCode>
MergeOk(j) == [ok |-> TRUE, job |-> j]
MergeErr(code) == [ok |-> FALSE, code |-> code]

\* variant: the tag is looked for on the candidate
LifoMerge_ChecksCandidate(self, source, candidate) ==
  IF get_lifo_tag(candidate.dimens) # None THEN MergeErr(self.code) ELSE MergeOk(source)

\* a Job is [dimens, jobs]: its own dimensions and its Singles
LifoMerge(self, source, candidate) ==
  IF get_lifo_tag(source.dimens) # None THEN MergeErr(self.code) ELSE MergeOk(source)

(***************************************************************************)
(* Transport cost capability: duration = |to - from| * scale.              *)
(***************************************************************************)
Abs(x) == IF x < 0 THEN -x ELSE x

Max(a, b) == IF a >= b THEN a ELSE b

TransportDuration(tr, from, to) == Abs(to - from) * tr.scale

(***************************************************************************)
(* Max ride duration constraint.                                           *)
(***************************************************************************)
MAX_RIDE_DURATION_CODE == 1200

create_max_ride_duration_feature(name, code, tr) ==
  [name |-> name, code |-> code, transport |-> tr]

\* variant: only the Single's own bound is looked at
get_max_ride_duration_for_single_OwnOnly(single) == single.max_ride_duration

get_max_ride_duration_for_single(single) ==
  IF single.max_ride_duration # None THEN single.max_ride_duration
  ELSE IF single.root # None THEN Unwrap(single.root).max_ride_duration
  ELSE None

RideIsPickup(single) ==
  single.demand # None /\ Unwrap(single.demand).pickup

RideIsDelivery(single) ==
  single.demand # None /\ Unwrap(single.demand).delivery

\* variant: two Singles are of the same job when both have a Multi parent
is_same_job_AnyParent(single1, single2) ==
  single1.root # None /\ single2.root # None

is_same_job(single1, single2) ==
  /\ single1.root # None
  /\ single2.root # None
  /\ Unwrap(single1.root).id = Unwrap(single2.root).id

\* variant: the arrival is counted from prev's arrival, leaving out its service
estimate_arrival_time_FromArrival(self, activity_ctx) ==
  activity_ctx.prev.schedule.arrival
    + TransportDuration(self.transport, activity_ctx.prev.place.location,
                        activity_ctx.target.place.location)

estimate_arrival_time(self, activity_ctx) ==
  activity_ctx.prev.schedule.departure
    + TransportDuration(self.transport, activity_ctx.prev.place.location,
                        activity_ctx.target.place.location)

estimate_departure_time(self, activity_ctx) ==
  Max(estimate_arrival_time(self, activity_ctx), activity_ctx.target.place.time_start)
    + activity_ctx.target.place.duration

\* the loop of estimate_arrival_at_activity_after_insertion from idx on
RECURSIVE ArrivalChain(_, _, _, _, _, _)
ArrivalChain(self, t, idx, target_idx, current_departure, current_location) ==
  IF idx > target_idx THEN current_departure
  ELSE LET a == TourGet(t, idx) IN
    IF a = None
      THEN ArrivalChain(self, t, idx + 1, target_idx, current_departure, current_location)
    ELSE LET activity == Unwrap(a)
             arrival == current_departure
                          + TransportDuration(self.transport, current_location,
                                              activity.place.location)
         IN IF idx = target_idx THEN arrival
            ELSE ArrivalChain(self, t, idx + 1, target_idx,
                              Max(arrival, activity.place.time_start) + activity.place.duration,
                              activity.place.location)

estimate_arrival_at_activity_after_insertion(self, t, activity_ctx, target_idx) ==
  ArrivalChain(self, t, activity_ctx.index, target_idx,
               estimate_departure_time(self, activity_ctx),
               activity_ctx.target.place.location)

\* the loop of check_pickup_insertion from idx on
RECURSIVE PickupLoop(_, _, _, _, _, _, _)
PickupLoop(self, t, activity_ctx, pickup_single, max_ride_duration, pickup_departure, idx) ==
  IF idx >= TourTotal(t) THEN None
  ELSE LET a == TourGet(t, idx) IN
    IF /\ a # None
       /\ Unwrap(a).job # None
       /\ is_same_job(pickup_single, Unwrap(Unwrap(a).job))
       /\ RideIsDelivery(Unwrap(Unwrap(a).job))
       /\ estimate_arrival_at_activity_after_insertion(self, t, activity_ctx, idx)
            - pickup_departure > max_ride_duration
      THEN Some(ConstraintViolation(self.code, FALSE))
      ELSE PickupLoop(self, t, activity_ctx, pickup_single, max_ride_duration,
                      pickup_departure, idx + 1)

check_pickup_insertion(self, t, activity_ctx, pickup_single, max_ride_duration) ==
  PickupLoop(self, t, activity_ctx, pickup_single, max_ride_duration,
             estimate_departure_time(self, activity_ctx), activity_ctx.index)

\* variant: a ride equal to the bound is rejected too
RECURSIVE DeliveryLoop_RejectsAtBound(_, _, _, _, _, _)
DeliveryLoop_RejectsAtBound(self, t, activity_ctx, delivery_single, max_ride_duration, idx) ==
  IF idx > activity_ctx.index THEN None
  ELSE LET a == TourGet(t, idx) IN
    IF /\ a # None
       /\ Unwrap(a).job # None
       /\ is_same_job(delivery_single, Unwrap(Unwrap(a).job))
       /\ RideIsPickup(Unwrap(Unwrap(a).job))
      THEN IF estimate_arrival_time(self, activity_ctx) - Unwrap(a).schedule.departure
                >= max_ride_duration
             THEN Some(ConstraintViolation(self.code, FALSE))
             ELSE None
      ELSE DeliveryLoop_RejectsAtBound(self, t, activity_ctx, delivery_single,
                                       max_ride_duration, idx + 1)

\* the loop of check_delivery_insertion from idx on
RECURSIVE DeliveryLoop(_, _, _, _, _, _)
DeliveryLoop(self, t, activity_ctx, delivery_single, max_ride_duration, idx) ==
  IF idx > activity_ctx.index THEN None
  ELSE LET a == TourGet(t, idx) IN
    IF /\ a # None
       /\ Unwrap(a).job # None
       /\ is_same_job(delivery_single, Unwrap(Unwrap(a).job))
       /\ RideIsPickup(Unwrap(Unwrap(a).job))
      THEN LET pickup_departure == Unwrap(a).schedule.departure
               delivery_arrival == estimate_arrival_time(self, activity_ctx)
               ride_duration == delivery_arrival - pickup_departure
           IN IF ride_duration > max_ride_duration
                THEN Some(ConstraintViolation(self.code, FALSE))
                ELSE None
      ELSE DeliveryLoop(self, t, activity_ctx, delivery_single, max_ride_duration, idx + 1)

check_delivery_insertion(self, t, activity_ctx, delivery_single, max_ride_duration) ==
  DeliveryLoop(self, t, activity_ctx, delivery_single, max_ride_duration, 0)

check_ride_duration(self, t, activity_ctx) ==
  IF activity_ctx.target.job = None THEN None
  ELSE LET single == Unwrap(activity_ctx.target.job)
           bound == get_max_ride_duration_for_single(single)
       IN IF bound = None THEN None
          ELSE IF RideIsPickup(single)
            THEN check_pickup_insertion(self, t, activity_ctx, single, Unwrap(bound))
          ELSE IF RideIsDelivery(single)
            THEN check_delivery_insertion(self, t, activity_ctx, single, Unwrap(bound))
          ELSE None

RideEvaluate(self, t, move_ctx) ==
  IF move_ctx.kind = "Activity"
    THEN check_ride_duration(self, t, move_ctx.activity_ctx)
    ELSE None

\* dimens.get_job_max_ride_duration()
get_job_max_ride_duration(dimens) ==
  IF "max_ride_duration" \in DOMAIN dimens THEN dimens.max_ride_duration ELSE None

\* variant: the bound is looked for on the candidate
RideMerge_ChecksCandidate(self, source, candidate) ==
  IF get_job_max_ride_duration(candidate.dimens) # None
    THEN MergeErr(self.code) ELSE MergeOk(source)

RideMerge(self, source, candidate) ==
  IF get_job_max_ride_duration(source.dimens) # None
    THEN MergeErr(self.code) ELSE MergeOk(source)

(***************************************************************************)
(* The insertion driver: it evaluates an activity-level move on a leg of   *)
(* the tour with every constraint and commits the target between prev and  *)
(* next when none objects, then updates the route's schedule.  The leg     *)
(* index is the index of prev.                                             *)
(***************************************************************************)
ActivityContext(t, index, target) ==
  [index |-> index, prev |-> t[index + 1], target |-> target,
   next |-> TourGet(t, index + 1)]

ActivityMove(t, index, target) ==
  [kind |-> "Activity", activity_ctx |-> ActivityContext(t, index, target)]

\* the other routes of the solution and the solution-scoped feature state
EmptySolution == [routes |-> <<>>, state |-> [preferences_fitness |-> None]]

\* arrival = departure of the previous activity + travel,
\* departure = max(arrival, time window start) + service duration
RECURSIVE update_route_schedule(_, _, _)
update_route_schedule(t, tr, n) ==
  IF n <= 1 THEN SubSeq(t, 1, n)
  ELSE LET done == update_route_schedule(t, tr, n - 1)
           prev == done[n - 1]
           arrival == prev.schedule.departure
                        + TransportDuration(tr, prev.place.location, t[n].place.location)
       IN Append(done, [t[n] EXCEPT !.schedule =
                          [arrival |-> arrival,
                           departure |-> Max(arrival, t[n].place.time_start) + t[n].place.duration]])

\* the jobs of the plan that are not in the tour yet
Unrouted(targets, t) == {a \in targets : \A i \in 1..Len(t) : t[i].job # a.job}

LifoTargets ==
  {create_regular_activity}
    \cup {create_lifo_pickup(tag, g) : tag \in Tags, g \in Groups}
    \cup {create_lifo_delivery(tag, g) : tag \in Tags, g \in Groups}

Vehicles == [lifo_tags : OptionOf(SUBSET Tags), attributes : {None}]

NoTransport == [scale |-> 0]

Init ==
  /\ tour = <<StartActivity>>
  /\ vehicle \in Vehicles
  /\ transport = NoTransport
  /\ problem = [activities |-> LifoTargets]
  /\ move = None
  /\ solution = EmptySolution

EvaluateActivity(index, target) ==
  /\ move = None
  /\ Len(tour) < MaxTour
  /\ target \in Unrouted(problem.activities, tour)
  /\ move' = Some([ctx |-> ActivityMove(tour, index, target),
                   lifo |-> LifoEvaluate(create_lifo_ordering_feature(LIFO_VIOLATION_CODE),
                                         tour, vehicle, ActivityMove(tour, index, target)),
                   ride |-> RideEvaluate(create_max_ride_duration_feature(
                                           "max_ride_duration", MAX_RIDE_DURATION_CODE, transport),
                                         tour, ActivityMove(tour, index, target))])
  /\ UNCHANGED <<tour, vehicle, transport, problem, solution>>

CommitInsertion ==
  /\ move # None
  /\ Unwrap(move).ctx.kind = "Activity"
  /\ Unwrap(move).ctx.activity_ctx.index < Len(tour)
  /\ Unwrap(move).lifo = None
  /\ Unwrap(move).ride = None
  /\ tour' = update_route_schedule(
               TourInsertAt(tour, Unwrap(move).ctx.activity_ctx.target,
                            Unwrap(move).ctx.activity_ctx.index + 1),
               transport, Len(tour) + 1)
  /\ move' = None
  /\ UNCHANGED <<vehicle, transport, problem, solution>>

\* the driver drops the candidate, rejected or not, and goes on with another
DiscardMove ==
  /\ move # None
  /\ move' = None
  /\ UNCHANGED <<tour, vehicle, transport, problem, solution>>

Next ==
  \/ \E index \in 0..(Len(tour) - 1), target \in problem.activities :
       EvaluateActivity(index, target)
  \/ CommitInsertion
  \/ DiscardMove

Spec == Init /\ [][Next]_vars

(***************************************************************************)
(* A pickup-and-delivery plan with ride duration bounds.                   *)
(***************************************************************************)
SERVICE_DURATION == 60

Scales == {44, 45}
RideBounds == {440, 449}

Multi(id, max_ride_duration) ==
  [id |-> id, max_ride_duration |-> max_ride_duration, preferences |-> None]

PickupLocation(id) == 10 * id
DeliveryLocation(id) == 10 * id + 10

create_pickup_activity(location, single) ==
  Activity([idx |-> 0, location |-> location, duration |-> SERVICE_DURATION, time_start |-> 0],
           DefaultSchedule, Some(single))

create_delivery_activity(location, single) ==
  Activity([idx |-> 0, location |-> location, duration |-> SERVICE_DURATION, time_start |-> 0],
           DefaultSchedule, Some(single))

\* own = TRUE: the bound is set on the Singles, otherwise on the Multi parent
create_pudo_multi_job(id, max_ride_duration, own) ==
  LET multi == Multi(id, IF own THEN None ELSE max_ride_duration)
      child(demand) == [NoDimens EXCEPT !.demand = Some(demand), !.root = Some(multi),
                                        !.max_ride_duration =
                                           IF own THEN max_ride_duration ELSE None]
  IN {create_pickup_activity(PickupLocation(id), child(pudo_pickup)),
      create_delivery_activity(DeliveryLocation(id), child(pudo_delivery))}

RideRegular ==
  Activity([idx |-> 0, location |-> 15, duration |-> SERVICE_DURATION, time_start |-> 0],
           DefaultSchedule, Some(NoDimens))

RidePlans ==
  {{RideRegular} \cup UNION {create_pudo_multi_job(id, bounds[id], own) : id \in 1..NumJobs} :
     bounds \in [1..NumJobs -> OptionOf(RideBounds)], own \in BOOLEAN}

InitRide ==
  /\ tour = <<StartActivity>>
  /\ vehicle = [lifo_tags |-> None, attributes |-> None]
  /\ transport \in [scale : Scales]
  /\ problem \in [activities : RidePlans]
  /\ move = None
  /\ solution = EmptySolution

SpecRide == InitRide /\ [][Next]_vars

(***************************************************************************)
(* Preferences objective.                                                  *)
(***************************************************************************)
\* variant: a list given empty is stored as an empty set
JobPreferencesNew_KeepsEmpty(preferred, acceptable, avoid) ==
  [preferred |-> preferred, acceptable |-> acceptable, avoid |-> avoid]

\* JobPreferences::new: a list given empty is stored as absent
JobPreferencesNew(preferred, acceptable, avoid) ==
  LET map(attrs) == IF attrs = None THEN None
                    ELSE IF Unwrap(attrs) = {} THEN None ELSE attrs
  IN [preferred |-> map(preferred), acceptable |-> map(acceptable), avoid |-> map(avoid)]

has_preferred_match(self, vehicle_attrs) ==
  /\ self.preferred # None
  /\ vehicle_attrs # None
  /\ \E attr \in Unwrap(self.preferred) : attr \in Unwrap(vehicle_attrs)

has_acceptable_match(self, vehicle_attrs) ==
  /\ self.acceptable # None
  /\ vehicle_attrs # None
  /\ \E attr \in Unwrap(self.acceptable) : attr \in Unwrap(vehicle_attrs)

count_avoided(self, vehicle_attrs) ==
  IF self.avoid # None /\ vehicle_attrs # None
    THEN Cardinality({attr \in Unwrap(self.avoid) : attr \in Unwrap(vehicle_attrs)})
    ELSE 0

PreferencePenaltyDefault ==
  [no_preferred_match |-> 100, no_acceptable_match |-> 30, per_avoided_present |-> 75]

\* variant: the acceptable tier is charged without looking at the preferred tier
calculate_job_penalty_FlatTiers(penalty_config, j, veh) ==
  IF j.preferences = None THEN 0
  ELSE LET preferences == Unwrap(j.preferences)
           vehicle_attrs == veh.attributes
       IN (IF preferences.preferred # None /\ ~has_preferred_match(preferences, vehicle_attrs)
             THEN penalty_config.no_preferred_match ELSE 0)
          + (IF preferences.acceptable # None /\ ~has_acceptable_match(preferences, vehicle_attrs)
               THEN penalty_config.no_acceptable_match ELSE 0)
          + count_avoided(preferences, vehicle_attrs) * penalty_config.per_avoided_present

calculate_job_penalty(penalty_config, j, veh) ==
  IF j.preferences = None THEN 0
  ELSE LET preferences == Unwrap(j.preferences)
           vehicle_attrs == veh.attributes
           has_preferred == has_preferred_match(preferences, vehicle_attrs)
           has_acceptable == has_acceptable_match(preferences, vehicle_attrs)
           tier == IF preferences.preferred # None /\ ~has_preferred
                     THEN penalty_config.no_preferred_match
                            + (IF preferences.acceptable # None /\ ~has_acceptable
                                 THEN penalty_config.no_acceptable_match ELSE 0)
                     ELSE 0
       IN tier + count_avoided(preferences, vehicle_attrs) * penalty_config.per_avoided_present

\* variant: an activity-level move is charged the job's penalty as well
PreferencesEstimate_ChargesActivity(self, veh, move_ctx) ==
  IF move_ctx.kind = "Route"
    THEN calculate_job_penalty(self.penalty, move_ctx.job, veh)
    ELSE IF move_ctx.activity_ctx.target.job = None THEN 0
         ELSE calculate_job_penalty(self.penalty,
                IF Unwrap(move_ctx.activity_ctx.target.job).root # None
                  THEN Unwrap(Unwrap(move_ctx.activity_ctx.target.job).root)
                  ELSE Unwrap(move_ctx.activity_ctx.target.job), veh)

PreferencesEstimate(self, veh, move_ctx) ==
  IF move_ctx.kind = "Route"
    THEN calculate_job_penalty(self.penalty, move_ctx.job, veh)
    ELSE 0

\* the problem reader: the job's preference record, if the job description has one
get_preferences(api_preferences) ==
  IF api_preferences = None THEN None
  ELSE Some(JobPreferencesNew(Unwrap(api_preferences).preferred,
                              Unwrap(api_preferences).acceptable,
                              Unwrap(api_preferences).avoid))

fill_dimens(api_job) == [preferences |-> get_preferences(api_job.preferences)]

(***************************************************************************)
(* A job description with preferences, read and estimated on a route.      *)
(***************************************************************************)
Attributes == {"driver:alice", "driver:bob", "shift:night"}
Weights == {2, 3}

ApiJobPreferences ==
  [preferred : OptionOf(SUBSET Attributes), acceptable : OptionOf(SUBSET Attributes),
   avoid : OptionOf(SUBSET Attributes), weight : OptionOf(Weights)]

PenaltyConfigs ==
  {PreferencePenaltyDefault,
   [no_preferred_match |-> 8, no_acceptable_match |-> 2, per_avoided_present |-> 1]}

InitPref ==
  /\ tour = <<StartActivity>>
  /\ vehicle \in [lifo_tags : {None}, attributes : OptionOf(SUBSET Attributes)]
  /\ transport = NoTransport
  /\ problem \in [api_job : [preferences : OptionOf(ApiJobPreferences)],
                  penalty : PenaltyConfigs]
  /\ move = None
  /\ solution = EmptySolution

RouteMove(j) == [kind |-> "Route", job |-> j]

EvaluateRoute ==
  /\ move = None
  /\ move' = Some([ctx |-> RouteMove(fill_dimens(problem.api_job)),
                   preferences |-> PreferencesEstimate([penalty |-> problem.penalty], vehicle,
                                                       RouteMove(fill_dimens(problem.api_job)))])
  /\ UNCHANGED <<tour, vehicle, transport, problem, solution>>

NextPref == EvaluateRoute

SpecPref == InitPref /\ [][NextPref]_vars

(***************************************************************************)
(* Requested time objective.                                               *)
(***************************************************************************)
SECONDS_PER_MINUTE == 60

\* a cost rate per second is the fraction num / den
RequestedTimePenaltyNew(early_penalty_per_minute, late_penalty_per_minute) ==
  [early_penalty_per_second |-> [num |-> early_penalty_per_minute, den |-> SECONDS_PER_MINUTE],
   late_penalty_per_second |-> [num |-> late_penalty_per_minute, den |-> SECONDS_PER_MINUTE]]

\* variant: the late rate is charged for an early arrival too
calculate_penalty_LateRateOnly(self, arrival, requested) ==
  IF arrival < requested
    THEN [num |-> (requested - arrival) * self.late_penalty_per_second.num,
          den |-> self.late_penalty_per_second.den]
    ELSE [num |-> (arrival - requested) * self.late_penalty_per_second.num,
          den |-> self.late_penalty_per_second.den]

calculate_penalty(self, arrival, requested) ==
  IF arrival < requested
    THEN [num |-> (requested - arrival) * self.early_penalty_per_second.num,
          den |-> self.early_penalty_per_second.den]
    ELSE [num |-> (arrival - requested) * self.late_penalty_per_second.num,
          den |-> self.late_penalty_per_second.den]

MaxRate == 2
Timestamps == {0, 1000, 1001, 2800}

InitTime ==
  /\ tour = <<StartActivity>>
  /\ vehicle = [lifo_tags |-> None, attributes |-> None]
  /\ transport = NoTransport
  /\ problem \in [early_penalty_per_minute : 0..MaxRate, late_penalty_per_minute : 0..MaxRate,
                  arrival : Timestamps, requested : Timestamps]
  /\ move = None
  /\ solution = EmptySolution

CalculatePenalty ==
  /\ move = None
  /\ move' = Some([arrival |-> problem.arrival, requested |-> problem.requested,
                   penalty |-> calculate_penalty(
                                 RequestedTimePenaltyNew(problem.early_penalty_per_minute,
                                                         problem.late_penalty_per_minute),
                                 problem.arrival, problem.requested)])
  /\ UNCHANGED <<tour, vehicle, transport, problem, solution>>

NextTime == CalculatePenalty

SpecTime == InitTime /\ [][NextTime]_vars

(***************************************************************************)
(* Preferences at the level of the solution: the fitness, its solution     *)
(* scoped cache and the state hooks.  A job is known by the dimensions of  *)
(* its Job value: a Single's own, or those of the Multi a Single belongs   *)
(* to.  The solution is the route under construction followed by the       *)
(* other routes.                                                           *)
(***************************************************************************)
RouteContext(t, veh) == [tour |-> t, vehicle |-> veh]

SolutionContext(t, veh, sol) ==
  [routes |-> <<RouteContext(t, veh)>> \o sol.routes, state |-> sol.state]

\* tour.jobs(): the distinct jobs of the tour's activities
TourJobs(t) ==
  {IF Unwrap(t[i].job).root # None THEN Unwrap(Unwrap(t[i].job).root) ELSE Unwrap(t[i].job) :
     i \in {k \in 1..Len(t) : t[k].job # None}}

\* .sum() of an iterator, given as a function from its items to their costs
RECURSIVE IterSum(_)
IterSum(f) ==
  IF DOMAIN f = {} THEN 0
  ELSE LET x == CHOOSE y \in DOMAIN f : TRUE
       IN f[x] + IterSum([y \in (DOMAIN f) \ {x} |-> f[y]])

calculate_route_penalty(penalty_config, route_ctx) ==
  IterSum([j \in TourJobs(route_ctx.tour) |->
             calculate_job_penalty(penalty_config, j, route_ctx.vehicle)])

calculate_solution_fitness(penalty_config, solution_ctx) ==
  IterSum([r \in 1..Len(solution_ctx.routes) |->
             calculate_route_penalty(penalty_config, solution_ctx.routes[r])])

PreferencesFitness(self, solution_ctx) ==
  IF solution_ctx.state.preferences_fitness # None
    THEN Unwrap(solution_ctx.state.preferences_fitness)
    ELSE calculate_solution_fitness(self.penalty, solution_ctx)

accept_insertion(self, solution_ctx, route_index, j) == solution_ctx

accept_route_state(self, route_ctx) == route_ctx

\* variant: the new total is added to the total cached before
accept_solution_state_Accumulates(self, solution_ctx) ==
  [solution_ctx EXCEPT !.state.preferences_fitness =
     Some((IF solution_ctx.state.preferences_fitness = None THEN 0
           ELSE Unwrap(solution_ctx.state.preferences_fitness))
          + calculate_solution_fitness(self.penalty, solution_ctx))]

accept_solution_state(self, solution_ctx) ==
  [solution_ctx EXCEPT !.state.preferences_fitness =
     Some(calculate_solution_fitness(self.penalty, solution_ctx))]

\* the problem reader: a job of one task, the preferences on the Single
get_single_job(api_job, single) ==
  LET filled == [single EXCEPT !.id = Some(api_job.id),
                               !.preferences = fill_dimens(api_job).preferences]
  IN [dimens |-> filled, jobs |-> <<filled>>]

\* DefaultHasher over the job id, truncated to usize
LifoGroupIdOf(job_id) == (job_id * 31 + 12345) % 65536

\* the problem reader: a job of several tasks, the preferences and the ride
\* bound on the Multi, the LIFO tag and the group derived from the job id on
\* every Single; Multi::new_shared binds the Singles to the Multi
get_multi_job(api_job, singles) ==
  LET dimens == [id |-> api_job.id,
                 max_ride_duration |-> api_job.max_ride_duration,
                 preferences |-> fill_dimens(api_job).preferences]
      tagged(single) ==
        IF api_job.lifo_tag # None
          THEN [single EXCEPT !.lifo_tag = api_job.lifo_tag,
                              !.lifo_group = Some(LifoGroupIdOf(api_job.id))]
          ELSE single
  IN [dimens |-> dimens,
      jobs |-> [i \in 1..Len(singles) |-> [tagged(singles[i]) EXCEPT !.root = Some(dimens)]]]

ApiJob(id, preferences) ==
  [id |-> id, preferences |-> preferences, max_ride_duration |-> None, lifo_tag |-> None]

ApiPreferences(preferred, acceptable, avoid, weight) ==
  [preferred |-> preferred, acceptable |-> acceptable, avoid |-> avoid, weight |-> weight]

\* the jobs of the plan, as read: two of one task, one of a pickup and a delivery
PreferencePlan ==
  {get_single_job(ApiJob(1, Some(ApiPreferences(Some({"driver:alice"}), None,
                                                Some({"shift:night"}), Some(3)))),
                  NoDimens),
   get_multi_job(ApiJob(2, Some(ApiPreferences(Some({"driver:bob"}), Some({"driver:alice"}),
                                               None, None))),
                 <<[NoDimens EXCEPT !.demand = Some(pudo_pickup)],
                   [NoDimens EXCEPT !.demand = Some(pudo_delivery)]>>),
   get_single_job(ApiJob(3, None), NoDimens)}

\* a route of another vehicle that already serves a job
OtherRoute ==
  RouteContext(
    <<StartActivity,
      Activity(DefaultPlace, DefaultSchedule,
               Some(get_single_job(ApiJob(4, Some(ApiPreferences(None, None,
                                                   Some({"shift:night", "driver:bob"}), None))),
                                   NoDimens).dimens))>>,
    [lifo_tags |-> None, attributes |-> Some({"driver:bob", "shift:night"})])

PlanVehicles ==
  [lifo_tags : {None},
   attributes : {None, Some({"driver:alice"}), Some({"driver:bob", "shift:night"})}]

InitSol ==
  /\ tour = <<StartActivity>>
  /\ vehicle \in PlanVehicles
  /\ transport = NoTransport
  /\ problem \in [jobs : {PreferencePlan}, penalty : PenaltyConfigs]
  /\ move = None
  /\ solution = [routes |-> <<OtherRoute>>, state |-> [preferences_fitness |-> None]]

PreferencesFeature == [penalty |-> problem.penalty]

JobActivities(j) == [i \in 1..Len(j.jobs) |-> Activity(DefaultPlace, DefaultSchedule, Some(j.jobs[i]))]

\* the driver estimates a job on the route, then its first task on a leg
EvaluateJob(j, index) ==
  /\ move = None
  /\ j \in problem.jobs
  /\ j.dimens \notin TourJobs(tour)
  /\ move' = Some([ctx |-> RouteMove(j.dimens),
                   preferences |-> PreferencesEstimate(PreferencesFeature, vehicle,
                                                       RouteMove(j.dimens)),
                   activity |-> ActivityMove(tour, index, JobActivities(j)[1]),
                   activity_preferences |->
                     PreferencesEstimate(PreferencesFeature, vehicle,
                                         ActivityMove(tour, index, JobActivities(j)[1])),
                   job |-> j])
  /\ UNCHANGED <<tour, vehicle, transport, problem, solution>>

\* the driver commits the job's tasks after prev and calls the route and
\* insertion hooks
CommitJob ==
  /\ move # None
  /\ LET m == Unwrap(move)
         index == m.activity.activity_ctx.index
         inserted == SubSeq(tour, 1, index + 1) \o JobActivities(m.job)
                       \o SubSeq(tour, index + 2, Len(tour))
         route_ctx == accept_route_state(PreferencesFeature,
                        RouteContext(update_route_schedule(inserted, transport, Len(inserted)),
                                     vehicle))
         solution_ctx == accept_insertion(PreferencesFeature,
                           SolutionContext(route_ctx.tour, route_ctx.vehicle, solution),
                           0, m.job.dimens)
     IN /\ tour' = solution_ctx.routes[1].tour
        /\ solution' = [routes |-> Tail(solution_ctx.routes), state |-> solution_ctx.state]
  /\ move' = None
  /\ UNCHANGED <<vehicle, transport, problem>>

\* the driver finalizes or restores the solution
AcceptSolutionState ==
  /\ move = None
  /\ LET solution_ctx == accept_solution_state(PreferencesFeature,
                           SolutionContext(tour, vehicle, solution))
     IN /\ tour' = solution_ctx.routes[1].tour
        /\ solution' = [routes |-> Tail(solution_ctx.routes), state |-> solution_ctx.state]
  /\ UNCHANGED <<vehicle, transport, problem, move>>

NextSol ==
  \/ \E j \in problem.jobs, index \in 0..(Len(tour) - 1) : EvaluateJob(j, index)
  \/ CommitJob
  \/ DiscardMove
  \/ AcceptSolutionState

SpecSol == InitSol /\ [][NextSol]_vars

(***************************************************************************)
(* Merging jobs: each constraint is asked whether source may take in       *)
(* candidate.                                                              *)
(***************************************************************************)
\* Job::Single(single)
JobSingle(single) == [dimens |-> single, jobs |-> <<single>>]

\* the Job an activity of a tour or plan belongs to
JobOfActivity(a) ==
  LET single == Unwrap(a.job) IN
  IF single.root # None
    THEN [dimens |-> Unwrap(single.root), jobs |-> <<single>>]
    ELSE JobSingle(single)

MergeableJobs ==
  {JobSingle(Unwrap(a.job)) : a \in LifoTargets}
    \cup {JobSingle([NoDimens EXCEPT !.max_ride_duration = Some(bound)]) : bound \in RideBounds}
    \cup {get_multi_job([ApiJob(id, None) EXCEPT !.max_ride_duration = bound, !.lifo_tag = tag],
                        <<[NoDimens EXCEPT !.demand = Some(pudo_pickup)],
                          [NoDimens EXCEPT !.demand = Some(pudo_delivery)]>>) :
            id \in 1..NumJobs, bound \in OptionOf(RideBounds), tag \in OptionOf(Tags)}

InitMerge ==
  /\ tour = <<StartActivity>>
  /\ vehicle = [lifo_tags |-> None, attributes |-> None]
  /\ transport \in [scale : Scales]
  /\ problem = [jobs |-> MergeableJobs]
  /\ move = None
  /\ solution = EmptySolution

\* the search asks every constraint to merge candidate into source
MergeJobs(source, candidate) ==
  /\ move = None
  /\ source # candidate
  /\ move' = Some([source |-> source, candidate |-> candidate,
                   lifo |-> LifoMerge(create_lifo_ordering_feature(LIFO_VIOLATION_CODE),
                                      source, candidate),
                   ride |-> RideMerge(create_max_ride_duration_feature(
                                        "max_ride_duration", MAX_RIDE_DURATION_CODE, transport),
                                      source, candidate)])
  /\ UNCHANGED <<tour, vehicle, transport, problem, solution>>

NextMerge ==
  \/ \E source \in problem.jobs, candidate \in problem.jobs : MergeJobs(source, candidate)
  \/ DiscardMove

SpecMerge == InitMerge /\ [][NextMerge]_vars

(***************************************************************************)
(* The driver asking the constraints about a route-level move (is this job *)
(* allowed on this route at all) besides the activity-level ones.          *)
(***************************************************************************)
\* a plan with a tagged pair, a pickup and delivery job with a ride bound and
\* a job with neither
ConsPlan ==
  {create_lifo_pickup("wheelchair", 1), create_lifo_delivery("wheelchair", 1), RideRegular}
    \cup create_pudo_multi_job(1, Some(440), FALSE)

InitCons ==
  /\ tour = <<StartActivity>>
  /\ vehicle \in Vehicles
  /\ transport \in [scale : Scales]
  /\ problem = [activities |-> ConsPlan]
  /\ move = None
  /\ solution = EmptySolution

EvaluateRouteLevel(target) ==
  /\ move = None
  /\ target \in Unrouted(problem.activities, tour)
  /\ move' = Some([ctx |-> RouteMove(JobOfActivity(target).dimens),
                   lifo |-> LifoEvaluate(create_lifo_ordering_feature(LIFO_VIOLATION_CODE),
                                         tour, vehicle, RouteMove(JobOfActivity(target).dimens)),
                   ride |-> RideEvaluate(create_max_ride_duration_feature(
                                           "max_ride_duration", MAX_RIDE_DURATION_CODE, transport),
                                         tour, RouteMove(JobOfActivity(target).dimens))])
  /\ UNCHANGED <<tour, vehicle, transport, problem, solution>>

NextCons ==
  \/ Next
  \/ \E target \in problem.activities : EvaluateRouteLevel(target)

SpecCons == InitCons /\ [][NextCons]_vars

(***************************************************************************)
(* Requested time objective on routes: estimate of a move and fitness of a *)
(* solution.  The requested times of a Single map a place index to the     *)
(* arrival asked for.                                                      *)
(***************************************************************************)
\* Cost::default()
ZeroCost == [num |-> 0, den |-> 1]

\* a + b on costs
CostAdd(a, b) ==
  IF a.den = b.den THEN [num |-> a.num + b.num, den |-> a.den]
  ELSE [num |-> a.num * b.den + b.num * a.den, den |-> a.den * b.den]

\* calculate_travel: the duration from prev to target when leaving prev at its departure
calculate_travel(t, activity_ctx, tr) ==
  TransportDuration(tr, activity_ctx.prev.place.location, activity_ctx.target.place.location)

calculate_activity_penalty_with_arrival(self, activity, arrival) ==
  IF activity.job = None THEN None
  ELSE LET single == Unwrap(activity.job) IN
    IF single.requested_times = None THEN None
    ELSE LET requested_times == Unwrap(single.requested_times) IN
      IF activity.place.idx \notin DOMAIN requested_times THEN None
      ELSE Some(calculate_penalty(self.penalty, arrival, requested_times[activity.place.idx]))

\* variant: the departure of the activity is taken for its arrival
calculate_activity_penalty_UsesDeparture(self, activity) ==
  calculate_activity_penalty_with_arrival(self, activity, activity.schedule.departure)

calculate_activity_penalty(self, activity) ==
  calculate_activity_penalty_with_arrival(self, activity, activity.schedule.arrival)

\* filter_map(..).sum() over the activities of a tour from the n-th backwards
RECURSIVE SumActivityPenalties(_, _, _)
SumActivityPenalties(self, t, n) ==
  IF n = 0 THEN ZeroCost
  ELSE LET penalty == calculate_activity_penalty(self, t[n])
           rest == SumActivityPenalties(self, t, n - 1)
       IN IF penalty = None THEN rest ELSE CostAdd(rest, Unwrap(penalty))

RECURSIVE SumRoutePenalties(_, _, _)
SumRoutePenalties(self, routes, n) ==
  IF n = 0 THEN ZeroCost
  ELSE CostAdd(SumRoutePenalties(self, routes, n - 1),
               SumActivityPenalties(self, routes[n].tour, Len(routes[n].tour)))

RequestedTimeFitness(self, solution_ctx) ==
  SumRoutePenalties(self, solution_ctx.routes, Len(solution_ctx.routes))

\* variant: the arrival is read from the schedule the target already has
RequestedTimeEstimate_UsesTargetSchedule(self, t, move_ctx) ==
  IF move_ctx.kind = "Route" THEN ZeroCost
  ELSE LET penalty == calculate_activity_penalty(self, move_ctx.activity_ctx.target)
       IN IF penalty = None THEN ZeroCost ELSE Unwrap(penalty)

RequestedTimeEstimate(self, t, move_ctx) ==
  IF move_ctx.kind = "Route" THEN ZeroCost
  ELSE LET activity_ctx == move_ctx.activity_ctx
           prev_to_tar_dur == calculate_travel(t, activity_ctx, self.transport)
           arrival == activity_ctx.prev.schedule.departure + prev_to_tar_dur
           penalty == calculate_activity_penalty_with_arrival(self, activity_ctx.target, arrival)
       IN IF penalty = None THEN ZeroCost ELSE Unwrap(penalty)

create_requested_time_feature(name, penalty, tr) ==
  [name |-> name, penalty |-> penalty, transport |-> tr]

\* an activity of a job with requested times, left with the schedule of an
\* earlier route
RequestedActivity(id, location, idx, requested_times, schedule) ==
  Activity([idx |-> idx, location |-> location, duration |-> 5, time_start |-> 0],
           schedule,
           Some([NoDimens EXCEPT !.id = Some(id), !.requested_times = requested_times]))

RequestedPlan ==
  {RequestedActivity(1, 10, 0, Some(0 :> 15), [arrival |-> 15, departure |-> 20]),
   RequestedActivity(2, 20, 1, Some(0 :> 30 @@ 1 :> 25), DefaultSchedule),
   RequestedActivity(3, 5, 1, Some(0 :> 10), DefaultSchedule),
   RequestedActivity(4, 15, 0, None, DefaultSchedule)}

\* a route of another vehicle: one stop reached early, one late
OtherRequestedRoute ==
  RouteContext(
    <<StartActivity,
      RequestedActivity(5, 4, 0, Some(0 :> 12), [arrival |-> 4, departure |-> 9]),
      RequestedActivity(6, 8, 0, Some(0 :> 10), [arrival |-> 13, departure |-> 18])>>,
    [lifo_tags |-> None, attributes |-> None])

InitReq ==
  /\ tour = <<StartActivity>>
  /\ vehicle = [lifo_tags |-> None, attributes |-> None]
  /\ transport \in [scale : {1, 2}]
  /\ problem \in [activities : {RequestedPlan},
                  early_penalty_per_minute : {1, 2}, late_penalty_per_minute : {0, 2}]
  /\ move = None
  /\ solution = [routes |-> <<OtherRequestedRoute>>, state |-> [preferences_fitness |-> None]]

RequestedTimeFeature ==
  create_requested_time_feature(
    "requested_time",
    RequestedTimePenaltyNew(problem.early_penalty_per_minute, problem.late_penalty_per_minute),
    transport)

\* the driver asks the constraints about the leg, then the objective for the
\* cost of the move on the leg and on the route
EstimateActivity(index, target) ==
  /\ move = None
  /\ Len(tour) < MaxTour
  /\ target \in Unrouted(problem.activities, tour)
  /\ move' = Some([ctx |-> ActivityMove(tour, index, target),
                   lifo |-> LifoEvaluate(create_lifo_ordering_feature(LIFO_VIOLATION_CODE),
                                         tour, vehicle, ActivityMove(tour, index, target)),
                   ride |-> RideEvaluate(create_max_ride_duration_feature(
                                           "max_ride_duration", MAX_RIDE_DURATION_CODE, transport),
                                         tour, ActivityMove(tour, index, target)),
                   requested_time |-> RequestedTimeEstimate(RequestedTimeFeature, tour,
                                                            ActivityMove(tour, index, target)),
                   route_requested_time |->
                     RequestedTimeEstimate(RequestedTimeFeature, tour,
                                           RouteMove(JobOfActivity(target).dimens))])
  /\ UNCHANGED <<tour, vehicle, transport, problem, solution>>

NextReq ==
  \/ \E index \in 0..(Len(tour) - 1), target \in problem.activities :
       EstimateActivity(index, target)
  \/ CommitInsertion
  \/ DiscardMove

SpecReq == InitReq /\ [][NextReq]_vars

(***************************************************************************)
(* The loops of the two constraints, counted: one step per loop iteration  *)
(* and one for the target.  The constraints are called here with any       *)
(* index, also one beyond the end of the tour, where tour.get is None.     *)
(***************************************************************************)
Beyond == 2

\* the iterations of "for idx in from..to" of check_lifo_violation
RECURSIVE ProcessRangeSteps(_, _, _, _, _)
ProcessRangeSteps(t, from, to, stacks, vehicle_lifo_tags) ==
  IF from >= to THEN 0
  ELSE LET a == TourGet(t, from) IN
    IF a = None THEN 1 + ProcessRangeSteps(t, from + 1, to, stacks, vehicle_lifo_tags)
    ELSE LET r == process_activity(Unwrap(a), stacks, vehicle_lifo_tags) IN
      IF r.err THEN 1
      ELSE 1 + ProcessRangeSteps(t, from + 1, to, r.stacks, vehicle_lifo_tags)

check_lifo_violation_steps(t, activity_ctx, vehicle_lifo_tags) ==
  LET before == ProcessRange(t, 0, activity_ctx.index, EmptyStacks, vehicle_lifo_tags)
      steps == ProcessRangeSteps(t, 0, activity_ctx.index, EmptyStacks, vehicle_lifo_tags)
  IN IF before.err THEN steps
     ELSE LET inserted == process_activity(activity_ctx.target, before.stacks, vehicle_lifo_tags) IN
       IF inserted.err THEN steps + 1
       ELSE steps + 1 + ProcessRangeSteps(t, activity_ctx.index, TourTotal(t),
                                          inserted.stacks, vehicle_lifo_tags)

LifoEvaluateSteps(self, t, veh, move_ctx) ==
  IF move_ctx.kind = "Activity"
    THEN IF veh.lifo_tags = None THEN 0
         ELSE IF Unwrap(veh.lifo_tags) = {} THEN 0
         ELSE check_lifo_violation_steps(t, move_ctx.activity_ctx, Unwrap(veh.lifo_tags))
    ELSE 0

\* the iterations of "for idx in activity_ctx.index..=target_idx"
RECURSIVE ArrivalChainSteps(_, _, _)
ArrivalChainSteps(t, idx, target_idx) ==
  IF idx > target_idx THEN 0
  ELSE IF TourGet(t, idx) # None /\ idx = target_idx THEN 1
  ELSE 1 + ArrivalChainSteps(t, idx + 1, target_idx)

\* the iterations of "for idx in activity_ctx.index..tour.total()" with those
\* of the chain walked for every matching delivery
RECURSIVE PickupLoopSteps(_, _, _, _, _, _, _)
PickupLoopSteps(self, t, activity_ctx, pickup_single, max_ride_duration, pickup_departure, idx) ==
  IF idx >= TourTotal(t) THEN 0
  ELSE LET a == TourGet(t, idx)
           found == /\ a # None
                    /\ Unwrap(a).job # None
                    /\ is_same_job(pickup_single, Unwrap(Unwrap(a).job))
                    /\ RideIsDelivery(Unwrap(Unwrap(a).job))
           chain == IF found THEN ArrivalChainSteps(t, activity_ctx.index, idx) ELSE 0
       IN IF /\ found
             /\ estimate_arrival_at_activity_after_insertion(self, t, activity_ctx, idx)
                  - pickup_departure > max_ride_duration
            THEN 1 + chain
            ELSE 1 + chain + PickupLoopSteps(self, t, activity_ctx, pickup_single,
                                             max_ride_duration, pickup_departure, idx + 1)

\* the iterations of "for idx in 0..=activity_ctx.index"
RECURSIVE DeliveryLoopSteps(_, _, _, _)
DeliveryLoopSteps(t, activity_ctx, delivery_single, idx) ==
  IF idx > activity_ctx.index THEN 0
  ELSE LET a == TourGet(t, idx) IN
    IF /\ a # None
       /\ Unwrap(a).job # None
       /\ is_same_job(delivery_single, Unwrap(Unwrap(a).job))
       /\ RideIsPickup(Unwrap(Unwrap(a).job))
      THEN 1
      ELSE 1 + DeliveryLoopSteps(t, activity_ctx, delivery_single, idx + 1)

RideEvaluateSteps(self, t, move_ctx) ==
  IF move_ctx.kind # "Activity" \/ move_ctx.activity_ctx.target.job = None THEN 0
  ELSE LET activity_ctx == move_ctx.activity_ctx
           single == Unwrap(activity_ctx.target.job)
           bound == get_max_ride_duration_for_single(single)
       IN IF bound = None THEN 0
          ELSE IF RideIsPickup(single)
            THEN PickupLoopSteps(self, t, activity_ctx, single, Unwrap(bound),
                                 estimate_departure_time(self, activity_ctx), activity_ctx.index)
          ELSE IF RideIsDelivery(single)
            THEN DeliveryLoopSteps(t, activity_ctx, single, 0)
          ELSE 0

\* a context built by a direct caller: any index, prev the last activity of
\* the tour at or before it
ActivityContextAt(t, index, target) ==
  [index |-> index,
   prev |-> IF index < Len(t) THEN t[index + 1] ELSE t[Len(t)],
   target |-> target,
   next |-> TourGet(t, index + 1)]

EvaluateAt(index, target) ==
  /\ move = None
  /\ Len(tour) < MaxTour
  /\ target \in Unrouted(problem.activities, tour)
  /\ LET move_ctx == [kind |-> "Activity",
                      activity_ctx |-> ActivityContextAt(tour, index, target)]
         lifo == create_lifo_ordering_feature(LIFO_VIOLATION_CODE)
         ride == create_max_ride_duration_feature("max_ride_duration",
                                                  MAX_RIDE_DURATION_CODE, transport)
     IN move' = Some([ctx |-> move_ctx,
                      lifo |-> LifoEvaluate(lifo, tour, vehicle, move_ctx),
                      ride |-> RideEvaluate(ride, tour, move_ctx),
                      lifo_steps |-> LifoEvaluateSteps(lifo, tour, vehicle, move_ctx),
                      ride_steps |-> RideEvaluateSteps(ride, tour, move_ctx)])
  /\ UNCHANGED <<tour, vehicle, transport, problem, solution>>

NextSteps ==
  \/ Next
  \/ \E index \in 0..(Len(tour) + Beyond), target \in problem.activities :
       EvaluateAt(index, target)

SpecSteps == InitCons /\ [][NextSteps]_vars

(***************************************************************************)
(* The stack walk step by step: every call of process_activity the walk of *)
(* check_lifo_violation makes, with the stacks before and after it, on a   *)
(* plan that also has tagged activities without a group, without a dynamic *)
(* demand and with both a pickup and a delivery demand.                    *)
(***************************************************************************)
\* one call of process_activity: the activity, the stacks it met and the result
WalkStep(activity, stacks, vehicle_lifo_tags) ==
  [activity |-> activity, before |-> stacks,
   result |-> process_activity(activity, stacks, vehicle_lifo_tags)]

\* the calls made for tour[from..to), in order, up to the first error
RECURSIVE WalkRange(_, _, _, _, _)
WalkRange(t, from, to, stacks, vehicle_lifo_tags) ==
  IF from >= to THEN <<>>
  ELSE LET a == TourGet(t, from) IN
    IF a = None THEN WalkRange(t, from + 1, to, stacks, vehicle_lifo_tags)
    ELSE LET step == WalkStep(Unwrap(a), stacks, vehicle_lifo_tags) IN
      IF step.result.err THEN <<step>>
      ELSE <<step>> \o WalkRange(t, from + 1, to, step.result.stacks, vehicle_lifo_tags)

\* the calls of one check_lifo_violation
check_lifo_violation_walk(t, activity_ctx, vehicle_lifo_tags) ==
  LET before == WalkRange(t, 0, activity_ctx.index, EmptyStacks, vehicle_lifo_tags)
      reached == ProcessRange(t, 0, activity_ctx.index, EmptyStacks, vehicle_lifo_tags)
  IN IF reached.err THEN before
     ELSE LET inserted == WalkStep(activity_ctx.target, reached.stacks, vehicle_lifo_tags) IN
       IF inserted.result.err THEN before \o <<inserted>>
       ELSE before \o <<inserted>>
              \o WalkRange(t, activity_ctx.index, TourTotal(t),
                           inserted.result.stacks, vehicle_lifo_tags)

\* a tagged activity with the given group and demand
create_lifo_activity(tag, group, demand) ==
  Activity(DefaultPlace, DefaultSchedule,
           Some([NoDimens EXCEPT !.lifo_tag = Some(tag), !.lifo_group = group,
                                 !.demand = demand]))

WalkPlan ==
  {create_lifo_pickup("wheelchair", 1),
   create_lifo_delivery("wheelchair", 1),
   \* a delivery with a tag and no group
   create_lifo_activity("wheelchair", None, Some(pudo_delivery)),
   \* a service: no demand
   create_lifo_activity("wheelchair", Some(2), None),
   \* a static demand only: no dynamic pickup, no dynamic delivery
   create_lifo_activity("wheelchair", Some(2), Some([pickup |-> FALSE, delivery |-> FALSE])),
   \* a dynamic pickup and a dynamic delivery demand at once
   create_lifo_activity("wheelchair", Some(1), Some([pickup |-> TRUE, delivery |-> TRUE]))}

InitWalk ==
  /\ tour = <<StartActivity>>
  /\ vehicle \in Vehicles
  /\ transport = NoTransport
  /\ problem = [activities |-> WalkPlan]
  /\ move = None
  /\ solution = EmptySolution

EvaluateWalk(index, target) ==
  /\ move = None
  /\ Len(tour) < MaxTour
  /\ target \in Unrouted(problem.activities, tour)
  /\ move' = Some([ctx |-> ActivityMove(tour, index, target),
                   lifo |-> LifoEvaluate(create_lifo_ordering_feature(LIFO_VIOLATION_CODE),
                                         tour, vehicle, ActivityMove(tour, index, target)),
                   ride |-> None,
                   walk |-> IF vehicle.lifo_tags = None \/ vehicle.lifo_tags = Some({})
                              THEN <<>>
                              ELSE check_lifo_violation_walk(
                                     tour, ActivityContext(tour, index, target),
                                     Unwrap(vehicle.lifo_tags))])
  /\ UNCHANGED <<tour, vehicle, transport, problem, solution>>

NextWalk ==
  \/ \E index \in 0..(Len(tour) - 1), target \in problem.activities :
       EvaluateWalk(index, target)
  \/ CommitInsertion
  \/ DiscardMove

SpecWalk == InitWalk /\ [][NextWalk]_vars

(***************************************************************************)
(* The problem reader turning the jobs of a problem into Multi jobs.  A    *)
(* job id is any string, a group id has the width of usize: the ids of     *)
(* the plan include two that the hasher maps to the same value.            *)
(***************************************************************************)
JobIds == (1..NumJobs) \cup {65536 + 1}

\* the tasks of a job as the reader hands them to get_multi_job
TaskSingles ==
  {<<[NoDimens EXCEPT !.demand = Some(pudo_pickup)],
     [NoDimens EXCEPT !.demand = Some(pudo_delivery)]>>,
   <<[NoDimens EXCEPT !.demand = Some(pudo_pickup)],
     [NoDimens EXCEPT !.demand = Some(pudo_pickup)],
     [NoDimens EXCEPT !.demand = Some(pudo_delivery)]>>}

ApiJobs == {[ApiJob(id, None) EXCEPT !.lifo_tag = tag] : id \in JobIds, tag \in OptionOf(Tags)}

InitRead ==
  /\ tour = <<StartActivity>>
  /\ vehicle = [lifo_tags |-> None, attributes |-> None]
  /\ transport = NoTransport
  /\ problem = [api_jobs |-> ApiJobs, read |-> {}]
  /\ move = None
  /\ solution = EmptySolution

\* read_required_jobs: one more job of the problem is read, ids are unique
ReadJob(api_job, singles) ==
  /\ \A r \in problem.read : r.api_job.id # api_job.id
  /\ problem' = [problem EXCEPT !.read = @ \cup {[api_job |-> api_job,
                                                  job |-> get_multi_job(api_job, singles)]}]
  /\ UNCHANGED <<tour, vehicle, transport, move, solution>>

NextRead == \E api_job \in problem.api_jobs, singles \in TaskSingles : ReadJob(api_job, singles)

SpecRead == InitRead /\ [][NextRead]_vars

(***************************************************************************)
(* LIFO ordering as the documentation states it, independent of the        *)
(* constraint's code: one stack per tag, a pickup pushes its group, a      *)
(* delivery must find its group on top and pops it.                        *)
(***************************************************************************)
TaggedWith(a, tag) ==
  /\ a.job # None
  /\ Unwrap(a.job).lifo_tag = Some(tag)
  /\ Unwrap(a.job).lifo_group # None

GroupOf(a) == Unwrap(Unwrap(a.job).lifo_group)

PicksUp(a) ==
  Unwrap(a.job).demand # None /\ Unwrap(Unwrap(a.job).demand).pickup

Delivers(a) ==
  /\ Unwrap(a.job).demand # None
  /\ Unwrap(Unwrap(a.job).demand).delivery
  /\ ~Unwrap(Unwrap(a.job).demand).pickup

\* the stack of tag after the first n activities of t, as [ok, stack];
\* ok = FALSE once a delivery did not find its group on top
RECURSIVE TagStack(_, _, _)
TagStack(t, n, tag) ==
  IF n = 0 THEN [ok |-> TRUE, stack |-> <<>>]
  ELSE LET r == TagStack(t, n - 1, tag)
           a == t[n]
       IN IF ~r.ok THEN r
          ELSE IF ~TaggedWith(a, tag) THEN r
          ELSE IF PicksUp(a) THEN [ok |-> TRUE, stack |-> Append(r.stack, GroupOf(a))]
          ELSE IF Delivers(a)
            THEN IF Len(r.stack) > 0 /\ r.stack[Len(r.stack)] = GroupOf(a)
                   THEN [ok |-> TRUE, stack |-> SubSeq(r.stack, 1, Len(r.stack) - 1)]
                   ELSE [ok |-> FALSE, stack |-> r.stack]
          ELSE r

EnforcedTags(veh) == IF veh.lifo_tags = None THEN {} ELSE Unwrap(veh.lifo_tags)

SatisfiesLifo(t, veh) == \A tag \in EnforcedTags(veh) : TagStack(t, Len(t), tag).ok

RemoveAt(t, index) == SubSeq(t, 1, index) \o SubSeq(t, index + 2, Len(t))

HasTaggedActivity(t) == \E i \in 1..Len(t) : \E tag \in Tags : TaggedWith(t[i], tag)

\* C1: the delivery of group g put right after the pickup of g (prev is that
\* pickup, the leg index is the index of prev) is never rejected by the LIFO
\* constraint when the tour without that pickup satisfies LIFO.
C1_DeliveryRightAfterPickupAccepted ==
  \A m \in move :
    LET ctx == m.ctx.activity_ctx IN
    \A tag \in EnforcedTags(vehicle) :
      ( /\ TaggedWith(ctx.prev, tag) /\ PicksUp(ctx.prev)
        /\ TaggedWith(ctx.target, tag) /\ Delivers(ctx.target)
        /\ GroupOf(ctx.target) = GroupOf(ctx.prev)
        /\ SatisfiesLifo(RemoveAt(tour, ctx.index), vehicle) )
      => m.lifo = None

\* C2: a delivery of an enforced tag whose group is not on top of the tag's
\* stack at the insertion point (after prev) is rejected with the feature's
\* code and stopped = false.
C2_OutOfOrderDeliveryRejected ==
  \A m \in move :
    LET ctx == m.ctx.activity_ctx IN
    \A tag \in EnforcedTags(vehicle) :
      LET at == TagStack(tour, ctx.index + 1, tag) IN
      ( /\ TaggedWith(ctx.target, tag) /\ Delivers(ctx.target)
        /\ at.ok
        /\ (Len(at.stack) = 0 \/ at.stack[Len(at.stack)] # GroupOf(ctx.target)) )
      => m.lifo = Some(ConstraintViolation(LIFO_VIOLATION_CODE, FALSE))

\* C3: a vehicle without an enforced-tag set, or with an empty one, never
\* gets a LIFO violation, whatever the tour, the target and the leg are.
C3_NoEnforcedTagsNeverViolates ==
  \A m \in move : EnforcedTags(vehicle) = {} => m.lifo = None

\* a vehicle without enforced tags was asked about a delivery whose group was
\* never picked up, on a tour that holds tagged activities
C3_Witness ==
  \E m \in move :
    /\ EnforcedTags(vehicle) = {}
    /\ \E tag \in Tags :
         /\ TaggedWith(m.ctx.activity_ctx.target, tag)
         /\ Delivers(m.ctx.activity_ctx.target)
         /\ TagStack(tour, m.ctx.activity_ctx.index + 1, tag).stack = <<>>
    /\ HasTaggedActivity(tour)

\* C4: every tour built from accepted and committed insertions satisfies
\* LIFO for every tag the vehicle enforces.
C4_CommittedTourSatisfiesLifo == SatisfiesLifo(tour, vehicle)



(***************************************************************************)
(* Ride duration as the documentation states it: the time between the      *)
(* pickup's departure and the paired delivery's arrival.                   *)
(***************************************************************************)
BoundOf(a) ==
  IF a.job = None THEN None
  ELSE IF Unwrap(a.job).max_ride_duration # None THEN Unwrap(a.job).max_ride_duration
  ELSE IF Unwrap(a.job).root # None THEN Unwrap(Unwrap(a.job).root).max_ride_duration
  ELSE None

SamePair(p, d) ==
  /\ p.job # None /\ d.job # None
  /\ Unwrap(p.job).root # None
  /\ Unwrap(p.job).root = Unwrap(d.job).root
  /\ PicksUp(p) /\ Delivers(d)

\* the ride of target d put after prev, when its pickup is tour[i]
RideAfter(ctx, i) ==
  ctx.prev.schedule.departure
    + Abs(ctx.target.place.location - ctx.prev.place.location) * transport.scale
    - tour[i].schedule.departure

\* C5: on a delivery insertion whose pickup is in the tour at or before prev,
\* a ride equal to the bound (or below) is accepted and every ride above the
\* bound is rejected.
C5_RideBoundIsExact ==
  \A m \in move :
    LET ctx == m.ctx.activity_ctx IN
    \A i \in 1..(ctx.index + 1) :
      (SamePair(tour[i], ctx.target) /\ BoundOf(ctx.target) # None)
      => /\ RideAfter(ctx, i) <= Unwrap(BoundOf(ctx.target)) => m.ride = None
         /\ RideAfter(ctx, i) > Unwrap(BoundOf(ctx.target))
              => m.ride = Some(ConstraintViolation(MAX_RIDE_DURATION_CODE, FALSE))

\* a delivery evaluated with a ride exactly at its bound
C5_Witness ==
  \E m \in move :
    \E i \in 1..(m.ctx.activity_ctx.index + 1) :
      /\ SamePair(tour[i], m.ctx.activity_ctx.target)
      /\ BoundOf(m.ctx.activity_ctx.target) # None
      /\ RideAfter(m.ctx.activity_ctx, i) = Unwrap(BoundOf(m.ctx.activity_ctx.target))
      /\ m.ride = None


\* C6: in every committed tour each pickup/delivery pair with a bound has
\* delivery arrival - pickup departure <= bound.
C6_CommittedRideWithinBound ==
  \A i, j \in 1..Len(tour) :
    (i < j /\ SamePair(tour[i], tour[j]) /\ BoundOf(tour[j]) # None)
    => tour[j].schedule.arrival - tour[i].schedule.departure <= Unwrap(BoundOf(tour[j]))


(***************************************************************************)
(* The preference penalty as the documentation states it.                  *)
(***************************************************************************)
OnVehicle(attrs) ==
  IF attrs = None \/ vehicle.attributes = None THEN {}
  ELSE Unwrap(attrs) \cap Unwrap(vehicle.attributes)

\* the penalty of the stored record before weighting
CombinedPenalty(prefs, config) ==
  (IF prefs.preferred # None /\ OnVehicle(prefs.preferred) = {}
     THEN config.no_preferred_match ELSE 0)
  + (IF /\ prefs.preferred # None /\ OnVehicle(prefs.preferred) = {}
        /\ prefs.acceptable # None /\ OnVehicle(prefs.acceptable) = {}
       THEN config.no_acceptable_match ELSE 0)
  + Cardinality(OnVehicle(prefs.avoid)) * config.per_avoided_present

WeightOf(api_preferences) ==
  IF api_preferences.weight = None THEN 1 ELSE Unwrap(api_preferences.weight)

\* C7: the penalty of a (job, route) pair is the combined penalty times the
\* job's weight, the weight being 1 when none is given.
C7_PenaltyIsWeighted ==
  \A m \in move :
    problem.api_job.preferences # None
    => m.preferences =
         CombinedPenalty(Unwrap(m.ctx.job.preferences), problem.penalty)
           * WeightOf(Unwrap(problem.api_job.preferences))

\* C8: the unweighted penalty is no_preferred_match when a preferred set exists
\* and none of it is on the vehicle, plus no_acceptable_match when in addition
\* an acceptable set exists and none of it is on the vehicle, plus
\* per_avoided_present for each avoided attribute on the vehicle.
\* A preferred attribute on the vehicle removes both tier penalties.
C8_UnweightedPenalty ==
  \A m \in move :
    m.ctx.job.preferences # None
    => /\ m.preferences = CombinedPenalty(Unwrap(m.ctx.job.preferences), problem.penalty)
       /\ OnVehicle(Unwrap(m.ctx.job.preferences).preferred) # {}
            => m.preferences = Cardinality(OnVehicle(Unwrap(m.ctx.job.preferences).avoid))
                                 * problem.penalty.per_avoided_present

\* no preferred and no acceptable attribute on the vehicle, two avoided ones present
C8_Witness ==
  \E m \in move :
    /\ m.ctx.job.preferences # None
    /\ LET prefs == Unwrap(m.ctx.job.preferences) IN
         /\ prefs.preferred # None /\ OnVehicle(prefs.preferred) = {}
         /\ prefs.acceptable # None /\ OnVehicle(prefs.acceptable) = {}
         /\ Cardinality(OnVehicle(prefs.avoid)) = 2
         /\ m.preferences = problem.penalty.no_preferred_match
                              + problem.penalty.no_acceptable_match
                              + 2 * problem.penalty.per_avoided_present

\* C9: a job without a preference record, or whose preferred, acceptable and
\* avoid lists are all absent or empty, has penalty 0 on every vehicle.
AbsentOrEmpty(attrs) == attrs = None \/ attrs = Some({})

C9_NoPreferencesNoPenalty ==
  \A m \in move :
    ( \/ problem.api_job.preferences = None
      \/ LET api == Unwrap(problem.api_job.preferences) IN
           AbsentOrEmpty(api.preferred) /\ AbsentOrEmpty(api.acceptable)
             /\ AbsentOrEmpty(api.avoid) )
    => m.preferences = 0

\* a record whose lists were all given empty, estimated on a vehicle with attributes
C9_Witness ==
  \E m \in move :
    /\ problem.api_job.preferences # None
    /\ Unwrap(problem.api_job.preferences).preferred = Some({})
    /\ Unwrap(problem.api_job.preferences).acceptable = Some({})
    /\ Unwrap(problem.api_job.preferences).avoid = Some({})
    /\ vehicle.attributes = Some(Attributes)
    /\ m.preferences = 0

(***************************************************************************)
(* The requested time penalty as the documentation states it.              *)
(***************************************************************************)
\* C10: the penalty is (requested - arrival) * early rate when early,
\* (arrival - requested) * late rate when late and 0 when on time, the rates
\* per minute being divided by 60; it is never negative.
C10_RequestedTimePenalty ==
  \A m \in move :
    /\ m.penalty.den = 60
    /\ m.arrival < m.requested
         => m.penalty.num = (m.requested - m.arrival) * problem.early_penalty_per_minute
    /\ m.arrival > m.requested
         => m.penalty.num = (m.arrival - m.requested) * problem.late_penalty_per_minute
    /\ m.arrival = m.requested => m.penalty.num = 0
    /\ m.penalty.num >= 0
    /\ (m.requested - m.arrival = 1800 /\ problem.early_penalty_per_minute = 1)
         => m.penalty.num = 30 * m.penalty.den
    /\ (m.arrival - m.requested = 1800 /\ problem.late_penalty_per_minute = 2)
         => m.penalty.num = 60 * m.penalty.den

\* early by 1800 seconds at 1 per minute, with a different late rate
C10_Witness ==
  \E m \in move :
    /\ m.requested - m.arrival = 1800
    /\ problem.early_penalty_per_minute = 1
    /\ problem.late_penalty_per_minute = 2
    /\ m.penalty.num = 30 * m.penalty.den

(***************************************************************************)
(* The solution-scoped cache and the shared attributes of a Multi.         *)
(***************************************************************************)
\* C11: accept_solution_state called twice on the same solution context with
\* nothing changed in between leaves the same cached fitness after the second
\* call as after the first, and fitness returns that value both times.
C11_AcceptTwiceSameCache ==
  "jobs" \in DOMAIN problem =>
    LET once == accept_solution_state(PreferencesFeature, SolutionContext(tour, vehicle, solution))
        twice == accept_solution_state(PreferencesFeature, once)
    IN /\ twice.state.preferences_fitness = once.state.preferences_fitness
       /\ PreferencesFitness(PreferencesFeature, once) = Unwrap(once.state.preferences_fitness)
       /\ PreferencesFitness(PreferencesFeature, twice) = Unwrap(once.state.preferences_fitness)

\* the hook has filled the cache with a total above zero for a route that
\* serves two jobs with preferences
C11_Witness ==
  /\ "jobs" \in DOMAIN problem
  /\ Cardinality({j \in TourJobs(tour) : j.preferences # None}) = 2
  /\ solution.state.preferences_fitness # None
  /\ Unwrap(solution.state.preferences_fitness) > 200
  /\ solution.state.preferences_fitness
       = accept_solution_state(PreferencesFeature,
                               SolutionContext(tour, vehicle, solution)).state.preferences_fitness

\* the two tasks of a pickup and delivery job, before the reader binds them
PudoSingles ==
  <<[NoDimens EXCEPT !.demand = Some(pudo_pickup)],
    [NoDimens EXCEPT !.demand = Some(pudo_delivery)]>>

\* C12: a max ride duration set on a Multi is what the bound lookup returns
\* from every child Single that has none of its own, also for the children
\* of the Job the reader returns; a Single without a bound whose parent has
\* none, or that has no parent, yields none.
C12_BoundThroughParent ==
  /\ \A a \in problem.activities :
       (a.job # None /\ Unwrap(a.job).max_ride_duration = None)
       => get_max_ride_duration_for_single(Unwrap(a.job))
            = IF Unwrap(a.job).root = None THEN None
              ELSE Unwrap(Unwrap(a.job).root).max_ride_duration
  /\ \A id \in 1..NumJobs, bound \in OptionOf(RideBounds) :
       LET job == get_multi_job([ApiJob(id, None) EXCEPT !.max_ride_duration = bound],
                                PudoSingles)
       IN /\ job.dimens.max_ride_duration = bound
          /\ \A i \in 1..Len(job.jobs) :
               get_max_ride_duration_for_single(job.jobs[i]) = bound
  /\ \A a \in problem.activities :
       (a.job # None /\ Unwrap(a.job).max_ride_duration = None /\ Unwrap(a.job).root # None)
       => \E bound \in OptionOf(RideBounds) :
            LET job == get_multi_job([ApiJob(Unwrap(Unwrap(a.job).root).id, None)
                                        EXCEPT !.max_ride_duration = bound], PudoSingles)
            IN \E i \in 1..Len(job.jobs) : job.jobs[i] = Unwrap(a.job)

\* a delivery whose bound is set on its Multi only was evaluated and rejected
\* for a ride above that bound
C12_Witness ==
  \E m \in move :
    LET single == Unwrap(m.ctx.activity_ctx.target.job) IN
    /\ m.ctx.activity_ctx.target.job # None
    /\ single.max_ride_duration = None
    /\ single.root # None
    /\ Unwrap(single.root).max_ride_duration = Some(449)
    /\ m.ride = Some(ConstraintViolation(MAX_RIDE_DURATION_CODE, FALSE))

(***************************************************************************)
(* Merge vetoes and route-level moves.                                     *)
(***************************************************************************)
\* the job's own dimensions hold the key
CarriesLifoTag(j) == "lifo_tag" \in DOMAIN j.dimens /\ j.dimens.lifo_tag # None

CarriesRideBound(j) ==
  "max_ride_duration" \in DOMAIN j.dimens /\ j.dimens.max_ride_duration # None

C14_RideMergeVeto ==
  \A m \in move :
    /\ CarriesRideBound(m.source) => m.ride = [ok |-> FALSE, code |-> MAX_RIDE_DURATION_CODE]
    /\ ~CarriesRideBound(m.source) => m.ride = [ok |-> TRUE, job |-> m.source]

\* a Multi with a bound, as the reader builds it, was refused a candidate
\* without a bound
C14_Witness ==
  \E m \in move :
    /\ CarriesRideBound(m.source)
    /\ Len(m.source.jobs) = 2
    /\ ~CarriesRideBound(m.candidate)
    /\ ~m.ride.ok

\* C15: both constraints return no violation for every route-level move,
\* whatever the job and the route are.
C15_RouteLevelNeverViolates ==
  \A m \in move : m.ctx.kind = "Route" => (m.lifo = None /\ m.ride = None)

\* a route-level move of a delivery with an enforced tag whose pickup is not
\* in the tour
C15_Witness ==
  \E m \in move :
    /\ m.ctx.kind = "Route"
    /\ get_lifo_tag(m.ctx.job) # None
    /\ Unwrap(get_lifo_tag(m.ctx.job)) \in EnforcedTags(vehicle)
    /\ Unwrap(m.ctx.job.demand).delivery
    /\ Len(tour) = 1
    /\ m.lifo = None

(***************************************************************************)
(* The preferences fitness as the documentation states it: the penalty of  *)
(* every job of every route, a job counted once per route.                 *)
(***************************************************************************)
\* the jobs of a tour, each known by its id and its preference record
JobsServed(t) ==
  {LET single == Unwrap(t[i].job) IN
     IF single.root # None
       THEN [id |-> Unwrap(single.root).id, preferences |-> Unwrap(single.root).preferences]
       ELSE [id |-> Unwrap(single.id), preferences |-> single.preferences] :
   i \in {k \in 1..Len(t) : t[k].job # None}}

Present(attrs, veh) ==
  IF attrs = None \/ veh.attributes = None THEN {}
  ELSE Unwrap(attrs) \cap Unwrap(veh.attributes)

\* the penalty of one job on one vehicle, before weighting
PenaltyOn(preferences, veh, config) ==
  IF preferences = None THEN 0
  ELSE LET prefs == Unwrap(preferences) IN
    (IF prefs.preferred # None /\ Present(prefs.preferred, veh) = {}
       THEN config.no_preferred_match
            + (IF prefs.acceptable # None /\ Present(prefs.acceptable, veh) = {}
                 THEN config.no_acceptable_match ELSE 0)
       ELSE 0)
    + Cardinality(Present(prefs.avoid, veh)) * config.per_avoided_present

RECURSIVE SumOfPenalties(_, _, _)
SumOfPenalties(jobs, veh, config) ==
  IF jobs = {} THEN 0
  ELSE LET j == CHOOSE x \in jobs : TRUE
       IN PenaltyOn(j.preferences, veh, config) + SumOfPenalties(jobs \ {j}, veh, config)

RECURSIVE SumOfRoutes(_, _)
SumOfRoutes(routes, config) ==
  IF routes = <<>> THEN 0
  ELSE SumOfPenalties(JobsServed(Head(routes).tour), Head(routes).vehicle, config)
       + SumOfRoutes(Tail(routes), config)

\* the fitness recomputed in full for the route under construction t and the
\* other routes of sol
RecomputedFitness(t, veh, sol, config) ==
  SumOfRoutes(<<[tour |-> t, vehicle |-> veh]>> \o sol.routes, config)

C18_FitnessIsSumOverJobs ==
  "jobs" \in DOMAIN problem =>
    PreferencesFitness(PreferencesFeature, SolutionContext(tour, vehicle, solution))
      = RecomputedFitness(tour, vehicle, solution, problem.penalty)

(***************************************************************************)
(* The requested time cost as the documentation states it, in sixtieths.   *)
(***************************************************************************)
\* cost c is n sixtieths
IsSixtieths(c, n) == c.num * 60 = n * c.den

\* the requested arrival of an activity at its chosen place, if any
RequestedAt(a) ==
  IF a.job = None THEN None
  ELSE IF Unwrap(a.job).requested_times = None THEN None
  ELSE IF a.place.idx \in DOMAIN Unwrap(Unwrap(a.job).requested_times)
    THEN Some(Unwrap(Unwrap(a.job).requested_times)[a.place.idx])
  ELSE None

\* sixty times the penalty of arriving at arrival
Deviation(a, arrival) ==
  IF RequestedAt(a) = None THEN 0
  ELSE LET requested == Unwrap(RequestedAt(a)) IN
    IF arrival < requested THEN (requested - arrival) * problem.early_penalty_per_minute
    ELSE (arrival - requested) * problem.late_penalty_per_minute

\* C17: the requested time estimate of an activity-level move is the penalty
\* at arrival = prev.schedule.departure + travel duration from prev to the
\* target, not at the target's own schedule.arrival; it is 0 for a
\* route-level move and 0 when the target has no job or no requested time for
\* its chosen place index.
C17_EstimateUsesActualArrival ==
  \A m \in move :
    LET ctx == m.ctx.activity_ctx
        arrival == ctx.prev.schedule.departure
                     + Abs(ctx.target.place.location - ctx.prev.place.location) * transport.scale
    IN /\ IsSixtieths(m.requested_time, Deviation(ctx.target, arrival))
       /\ RequestedAt(ctx.target) = None => m.requested_time.num = 0
       /\ m.route_requested_time.num = 0

\* a target that still has the schedule of an earlier route, where it was on
\* time, is estimated late on this leg
C17_Witness ==
  \E m \in move :
    LET ctx == m.ctx.activity_ctx IN
    /\ RequestedAt(ctx.target) = Some(ctx.target.schedule.arrival)
    /\ ctx.index = 1
    /\ ctx.prev.schedule.departure > 0
    /\ problem.late_penalty_per_minute = 2
    /\ m.requested_time.num > 0

RECURSIVE SumOfDeviations(_, _)
SumOfDeviations(t, n) ==
  IF n = 0 THEN 0 ELSE SumOfDeviations(t, n - 1) + Deviation(t[n], t[n].schedule.arrival)

RECURSIVE SumOverRoutes(_)
SumOverRoutes(routes) ==
  IF routes = <<>> THEN 0
  ELSE SumOfDeviations(Head(routes).tour, Len(Head(routes).tour)) + SumOverRoutes(Tail(routes))

\* C19: the requested time fitness is the sum, over every activity of every
\* route, of the penalty at the activity's committed schedule.arrival for the
\* requested time of its place index; an activity without a job or without a
\* requested time for that index adds 0.
C19_FitnessIsSumOverActivities ==
  "early_penalty_per_minute" \in DOMAIN problem =>
    IsSixtieths(RequestedTimeFitness(RequestedTimeFeature,
                                     SolutionContext(tour, vehicle, solution)),
                SumOverRoutes(<<[tour |-> tour, vehicle |-> vehicle]>> \o solution.routes))

\* three committed stops, among them one early, one late and one without a
\* requested time for its place, besides the other route
C19_Witness ==
  /\ "early_penalty_per_minute" \in DOMAIN problem
  /\ "activities" \in DOMAIN problem
  /\ Len(tour) = 4
  /\ \E i \in 2..4 : RequestedAt(tour[i]) # None
                      /\ tour[i].schedule.arrival < Unwrap(RequestedAt(tour[i]))
  /\ \E i \in 2..4 : RequestedAt(tour[i]) # None
                      /\ tour[i].schedule.arrival > Unwrap(RequestedAt(tour[i]))
  /\ \E i \in 2..4 : RequestedAt(tour[i]) = None /\ Unwrap(tour[i].job).requested_times # None
  /\ problem.late_penalty_per_minute = 2
  /\ Len(solution.routes) = 1

AfterInsertion(t, ctx) == TourInsertAt(t, ctx.target, ctx.index + 1)

\* C22: for an Activity move whose index is the position of prev, the LIFO
\* constraint returns a violation exactly when the per-tag stack walk fails
\* on the tour as it would be after the insertion (everything up to and
\* including prev, the target, then next and what follows), a failure
\* downstream of the target included.
C22_ViolationIffWalkFails ==
  \A m \in move :
    (m.lifo # None) <=> ~SatisfiesLifo(AfterInsertion(tour, m.ctx.activity_ctx), vehicle)

\* the schedule the tour would have once the target is committed after prev
Committed(t, ctx) == update_route_schedule(AfterInsertion(t, ctx), transport, Len(t) + 1)

\* the ride of the pickup ctx.target, committed after prev, to its delivery
\* t[j], an activity after prev: the delivery's arrival less the pickup's
\* departure, prev and what is before it taking no part
RideOfPickup(t, ctx, j) ==
  Committed(t, ctx)[j + 1].schedule.arrival - Committed(t, ctx)[ctx.index + 2].schedule.departure

\* C23: on a pickup insertion the ride checked for the matching delivery is
\* the one the tour has once the pickup is committed between prev and next
\* (from the pickup's departure over the activities strictly between the
\* pickup and the delivery to the delivery's arrival), and the move is
\* rejected exactly when that ride exceeds the bound.
C23_PickupRideIsCommittedRide ==
  \A m \in move :
    LET ctx == m.ctx.activity_ctx IN
    (ctx.target.job # None /\ PicksUp(ctx.target) /\ BoundOf(ctx.target) # None) =>
      ( m.ride # None <=>
          \E j \in (ctx.index + 2)..Len(tour) :
            /\ SamePair(ctx.target, tour[j])
            /\ RideOfPickup(tour, ctx, j) > Unwrap(BoundOf(ctx.target)) )

\* C24: on a delivery insertion the pickup of the same job is looked for
\* among the activities at or before prev, prev included; with its committed
\* departure and the delivery's arrival prev.departure + travel(prev, target)
\* the move is rejected, with the feature's code and stopped = false, exactly
\* when arrival - pickup departure exceeds the bound.  A target whose job has
\* no bound, on the Single or on its Multi parent, is never rejected.
C24_DeliveryRideFromCommittedPickup ==
  \A m \in move :
    LET ctx == m.ctx.activity_ctx
        pickups == {i \in 1..(ctx.index + 1) : SamePair(tour[i], ctx.target)}
        arrival == ctx.prev.schedule.departure
                     + Abs(ctx.target.place.location - ctx.prev.place.location) * transport.scale
    IN /\ BoundOf(ctx.target) = None => m.ride = None
       /\ (BoundOf(ctx.target) # None /\ pickups # {}) =>
            m.ride = IF \E i \in pickups :
                          arrival - tour[i].schedule.departure > Unwrap(BoundOf(ctx.target))
                       THEN Some(ConstraintViolation(MAX_RIDE_DURATION_CODE, FALSE))
                       ELSE None

\* a delivery put right after its pickup (prev is the pickup) and rejected
C24_Witness ==
  \E m \in move :
    /\ SamePair(m.ctx.activity_ctx.prev, m.ctx.activity_ctx.target)
    /\ BoundOf(m.ctx.activity_ctx.target) # None
    /\ m.ride = Some(ConstraintViolation(MAX_RIDE_DURATION_CODE, FALSE))

\* the activities of t that carry tag (and a group), in tour order
RestrictedTo(t, tag) == LET Carries(a) == TaggedWith(a, tag) IN SelectSeq(t, Carries)

\* the stack walk over the activities of one tag alone
WalkOfTagFails(t, tag) == ~TagStack(RestrictedTo(t, tag), Len(RestrictedTo(t, tag)), tag).ok

\* C25: the LIFO verdict is decided tag by tag: evaluate returns a violation
\* exactly when, for some tag the vehicle enforces, the stack walk over the
\* activities of that tag alone in the post-insertion tour fails; activities
\* without a tag, with a tag the vehicle does not enforce or with another
\* enforced tag, wherever they are in the tour, do not change the outcome.
C25_VerdictPerTag ==
  \A m \in move :
    (m.lifo # None) <=>
      \E tag \in EnforcedTags(vehicle) :
        WalkOfTagFails(AfterInsertion(tour, m.ctx.activity_ctx), tag)

\* equality of two costs
CostEq(a, b) == a.num * b.den = b.num * a.den

\* C26: the requested time estimate of an activity-level move is the
\* fitness of the solution once the move is committed and the schedules are
\* updated, less the fitness before it, the change in the penalty of the
\* activities that follow the insertion point included.
C26_EstimateIsFitnessChange ==
  [][ (/\ move # None
       /\ "requested_time" \in DOMAIN Unwrap(move)
       /\ tour' # tour)
      => CostEq(CostAdd(RequestedTimeFitness(RequestedTimeFeature,
                                             SolutionContext(tour, vehicle, solution)),
                        Unwrap(move).requested_time),
                RequestedTimeFitness(RequestedTimeFeature,
                                     SolutionContext(tour', vehicle, solution))) ]_vars

\* C27: a delivery whose pickup is not in the tour at or before prev (it is
\* absent or lies after the insertion point) is never rejected by the ride
\* duration constraint.
C27_DeliveryWithoutEarlierPickupAccepted ==
  \A m \in move :
    LET ctx == m.ctx.activity_ctx IN
    (/\ ctx.target.job # None
     /\ Delivers(ctx.target)
     /\ \A i \in 1..(ctx.index + 1) : ~SamePair(tour[i], ctx.target))
    => m.ride = None

\* a delivery with a bound evaluated on a leg before its pickup, behind the
\* pickup of another job
C27_Witness ==
  \E m \in move :
    LET ctx == m.ctx.activity_ctx IN
    /\ ctx.target.job # None /\ Delivers(ctx.target) /\ BoundOf(ctx.target) # None
    /\ ctx.prev.job # None /\ PicksUp(ctx.prev) /\ ~SamePair(ctx.prev, ctx.target)
    /\ \E j \in (ctx.index + 2)..Len(tour) : SamePair(tour[j], ctx.target)
    /\ m.ride = None

\* a job of several tasks whose child Singles carry a LIFO tag and group
ChildrenCarryLifoTag(j) ==
  \E i \in 1..Len(j.jobs) :
    /\ j.jobs[i].root # None
    /\ j.jobs[i].lifo_tag # None
    /\ j.jobs[i].lifo_group # None

\* C28: LIFO merge returns the violation code for a source that is a Multi
\* the problem reader built from a job with a lifoTag, the tag and the group
\* being on its child Singles; such a job never comes back as a merge result.
C28_LifoMergeVetoesTaggedMulti ==
  \A m \in move :
    ("source" \in DOMAIN m /\ ChildrenCarryLifoTag(m.source))
      => m.lifo = [ok |-> FALSE, code |-> LIFO_VIOLATION_CODE]

\* the activity has a tag the vehicle enforces
HasEnforcedTag(a) ==
  a.job # None /\ Unwrap(a.job).lifo_tag # None
    /\ Unwrap(Unwrap(a.job).lifo_tag) \in EnforcedTags(vehicle)

\* it has no group, or neither a dynamic pickup nor a dynamic delivery demand
\* (a service, a static demand)
WithoutGroupOrDemand(a) ==
  \/ Unwrap(a.job).lifo_group = None
  \/ Unwrap(a.job).demand = None
  \/ (~Unwrap(Unwrap(a.job).demand).pickup /\ ~Unwrap(Unwrap(a.job).demand).delivery)

SameStacks(s1, s2) == \A tag \in Tags : StackOf(s1, tag) = StackOf(s2, tag)

\* C29: in the stack walk an activity with an enforced tag but no group, or
\* without a dynamic pickup or delivery demand (a service, a static demand,
\* the start or end of the route), reports no violation and leaves every
\* tag's stack as it was; an activity with a dynamic pickup demand is always
\* pushed as a pickup, never treated as a delivery.
C29_InertActivitiesAndPickupFirst ==
  \A m \in move :
    "walk" \in DOMAIN m =>
      \A k \in 1..Len(m.walk) :
        LET a == m.walk[k].activity
            before == m.walk[k].before
            result == m.walk[k].result
        IN /\ (a.job = None \/ (HasEnforcedTag(a) /\ WithoutGroupOrDemand(a)))
                => (~result.err /\ SameStacks(result.stacks, before))
           /\ (HasEnforcedTag(a) /\ ~WithoutGroupOrDemand(a)
                 /\ Unwrap(Unwrap(a.job).demand).pickup)
                => /\ ~result.err
                   /\ \A tag \in Tags :
                        StackOf(result.stacks, tag) =
                          IF Some(tag) = Unwrap(a.job).lifo_tag
                            THEN Append(StackOf(before, tag), GroupOf(a))
                            ELSE StackOf(before, tag)

\* a walk in which an activity with both demands met its own group on top of
\* the stack and an activity without a group met a stack that is not empty
C29_Witness ==
  \E m \in move :
    /\ "walk" \in DOMAIN m
    /\ \E k \in 1..Len(m.walk) :
         /\ HasEnforcedTag(m.walk[k].activity)
         /\ ~WithoutGroupOrDemand(m.walk[k].activity)
         /\ Unwrap(Unwrap(m.walk[k].activity.job).demand).pickup
         /\ Unwrap(Unwrap(m.walk[k].activity.job).demand).delivery
         /\ StackLast(StackOf(m.walk[k].before, "wheelchair")) = Some(GroupOf(m.walk[k].activity))
    /\ \E k \in 1..Len(m.walk) :
         /\ HasEnforcedTag(m.walk[k].activity)
         /\ Unwrap(m.walk[k].activity.job).lifo_group = None
         /\ StackOf(m.walk[k].before, "wheelchair") # <<>>

\* every child Single of the job has this tag and this group
ChildrenHave(job, tag, group) ==
  \A i \in 1..Len(job.jobs) : job.jobs[i].lifo_tag = tag /\ job.jobs[i].lifo_group = group

\* C30: for a job of several tasks with a lifoTag the reader sets that tag
\* and one and the same group id on every child Single, and two jobs with
\* different ids never get the same group id; a job without a lifoTag gets
\* neither tag nor group on its Singles.
C30_GroupIdPerJob ==
  "read" \in DOMAIN problem =>
    /\ \A r \in problem.read :
         IF r.api_job.lifo_tag # None
           THEN /\ r.job.jobs[1].lifo_group # None
                /\ ChildrenHave(r.job, r.api_job.lifo_tag, r.job.jobs[1].lifo_group)
           ELSE ChildrenHave(r.job, None, None)
    /\ \A r1, r2 \in problem.read :
         (/\ r1.api_job.id # r2.api_job.id
          /\ r1.api_job.lifo_tag # None
          /\ r2.api_job.lifo_tag # None)
         => r1.job.jobs[1].lifo_group # r2.job.jobs[1].lifo_group

====
